---- MODULE Spec2Model ----
(***************************************************************************)
(* WoodDetection: the Mask Builder (MaskFromJsonAnnotation.py) and the     *)
(* Mask Comparator (compareCvatVsSamMasks.py).                             *)
(*                                                                         *)
(* Strings are sequences of one-character strings, so that formatting,     *)
(* splitting, parsing and sorting of file names are computed character by  *)
(* character.  A uint8 canvas whose pixels are all 0 or 255 is the record  *)
(* [rows, cols, on]: its shape and the set of <<x, y>> pixels that hold    *)
(* 255.  Real numbers are exact fractions <<numerator, denominator>>.      *)
(***************************************************************************)
EXTENDS Integers, Sequences, FiniteSets, TLC

VARIABLES
    pc,             \* position of the running function
    stdout,         \* the diagnostics printed so far
    \* create_grouped_masks_from_annotations
    data,           \* the shape records of the parsed JSON file, in the order the
                    \* nested loops of lines 26-30 meet them
    image_size,     \* <<width, height>>
    grouped_masks,  \* dict frame -> canvas: [keys: insertion order, val: mapping]
    idx,            \* position of the shape loop / of the save loop
    files,          \* output directory: file name -> image written
    \* compute_mask_accuracy
    cvat_mask,      \* the reference grid (None when not loaded)
    test_mask,      \* the candidate grid (None when not loaded)
    ret,            \* the value returned
    cvat_file,      \* what is stored at cvat_mask_path (None: no readable image)
    test_file,      \* what is stored at test_mask_path (None: no readable image)
    \* evaluate_multiple_masks
    cvat_dir,       \* names of the files of the reference directory
    test_dir,       \* names of the files of the candidate directory
    listing,        \* sorted(os.listdir(cvat_mask_dir))
    pos,            \* position of the file loop
    results,        \* dict file name (or "Overall") -> metrics
    total_iou,
    total_accuracy,
    count

bvars == <<data, image_size, grouped_masks, idx, files>>
cvars == <<cvat_mask, test_mask, ret, cvat_file, test_file>>
evars == <<cvat_dir, test_dir, listing, pos, results, total_iou, total_accuracy, count>>
vars == <<pc, stdout, bvars, cvars, evars>>

\* Python's None, where a grid or a metrics record may stand
None == [none |-> TRUE]

Min(a, b) == IF a < b THEN a ELSE b
Max(a, b) == IF a > b THEN a ELSE b

(***************************************************************************)
(* Strings                                                                 *)
(***************************************************************************)
Digits == <<"0", "1", "2", "3", "4", "5", "6", "7", "8", "9">>

\* The characters of the file names, in code point order.
Alphabet ==
    <<"-", ".">> \o Digits \o <<"O", "_">> \o
    <<"a", "b", "c", "d", "e", "f", "g", "h", "i", "j", "k", "l", "m",
      "n", "o", "p", "q", "r", "s", "t", "u", "v", "w", "x", "y", "z">>

Ord(c) == CHOOSE n \in 1..Len(Alphabet) : Alphabet[n] = c

IsDigit(c) == \E n \in 1..Len(Digits) : Digits[n] = c

DigitValue(c) == (CHOOSE n \in 1..Len(Digits) : Digits[n] = c) - 1

\* str(n) of a natural number
RECURSIVE NatToStr(_)
NatToStr(n) ==
    IF n < 10 THEN <<Digits[n + 1]>>
    ELSE NatToStr(n \div 10) \o <<Digits[(n % 10) + 1]>>

\* str(n), the text an f-string puts for {n}
IntToStr(n) == IF n < 0 THEN <<"-">> \o NatToStr(0 - n) ELSE NatToStr(n)

StartsWith(s, p) == Len(s) >= Len(p) /\ SubSeq(s, 1, Len(p)) = p

EndsWith(s, p) == Len(s) >= Len(p) /\ SubSeq(s, Len(s) - Len(p) + 1, Len(s)) = p

\* s.split(sep), sep one character: the list of the parts
RECURSIVE Split(_, _)
Split(s, sep) ==
    IF \A n \in 1..Len(s) : s[n] # sep THEN <<s>>
    ELSE LET n == CHOOSE m \in 1..Len(s) :
                      s[m] = sep /\ \A l \in 1..(m - 1) : s[l] # sep
         IN <<SubSeq(s, 1, n - 1)>> \o Split(SubSeq(s, n + 1, Len(s)), sep)

\* s < t as Python compares strings: by code point, a proper prefix first
RECURSIVE StrLess(_, _)
StrLess(s, t) ==
    IF t = <<>> THEN FALSE
    ELSE IF s = <<>> THEN TRUE
    ELSE IF s[1] # t[1] THEN Ord(s[1]) < Ord(t[1])
    ELSE StrLess(Tail(s), Tail(t))

\* sorted(S) of a set of strings
RECURSIVE Sorted(_)
Sorted(S) ==
    IF S = {} THEN <<>>
    ELSE LET least == CHOOSE s \in S : \A t \in S \ {s} : StrLess(s, t)
         IN <<least>> \o Sorted(S \ {least})

S_mask_frame == <<"m", "a", "s", "k", "_", "f", "r", "a", "m", "e">>
S_png == <<".", "p", "n", "g">>
S_1500x1500 == <<"1", "5", "0", "0", "x", "1", "5", "0", "0">>

(***************************************************************************)
(* Mask Builder: canvases and the drawing calls                            *)
(*                                                                         *)
(* A drawing call sets to 255 the pixels of the canvas that lie in the     *)
(* region it is given: the closed polygon, the band of the polyline, the   *)
(* filled ellipse.  Coordinates are integers and axes are not negative.    *)
(***************************************************************************)
\* np.zeros((rows, cols), dtype=np.uint8)
Zeros(rows, cols) == [rows |-> rows, cols |-> cols, on |-> {}]

\* img[y, x]
Pixel(img, x, y) == IF <<x, y>> \in img.on THEN 255 ELSE 0

\* every pixel of img is 0
AllZero(img) == img.on = {}

\* shape.get(key, default)
Get(shape, key, default) == IF key \in DOMAIN shape THEN shape[key] ELSE default

\* np.array(points, dtype=np.int32).reshape((-1, 2))
Reshape(points) == [n \in 1..(Len(points) \div 2) |-> <<points[2 * n - 1], points[2 * n]>>]

SeqMin(s) == CHOOSE v \in {s[n] : n \in 1..Len(s)} : \A n \in 1..Len(s) : v <= s[n]
SeqMax(s) == CHOOSE v \in {s[n] : n \in 1..Len(s)} : \A n \in 1..Len(s) : v >= s[n]

\* The pixels of the canvas within margin of the box lo..hi: a drawing call
\* touches no pixel outside the canvas.
Window(img, lo, hi, margin) ==
    {<<x, y>> : x \in Max(0, lo[1] - margin)..Min(img.cols - 1, hi[1] + margin),
                y \in Max(0, lo[2] - margin)..Min(img.rows - 1, hi[2] + margin)}

BoxLo(pts) == <<SeqMin([n \in 1..Len(pts) |-> pts[n][1]]), SeqMin([n \in 1..Len(pts) |-> pts[n][2]])>>
BoxHi(pts) == <<SeqMax([n \in 1..Len(pts) |-> pts[n][1]]), SeqMax([n \in 1..Len(pts) |-> pts[n][2]])>>

Cross(a, b, p) == (b[1] - a[1]) * (p[2] - a[2]) - (b[2] - a[2]) * (p[1] - a[1])
Dist2(a, b) == (a[1] - b[1]) * (a[1] - b[1]) + (a[2] - b[2]) * (a[2] - b[2])

OnSegment(p, a, b) ==
    /\ Cross(a, b, p) = 0
    /\ Min(a[1], b[1]) <= p[1] /\ p[1] <= Max(a[1], b[1])
    /\ Min(a[2], b[2]) <= p[2] /\ p[2] <= Max(a[2], b[2])

\* the ray from p to the right crosses the edge a-b
RayCrosses(p, a, b) ==
    /\ (a[2] > p[2]) # (b[2] > p[2])
    /\ IF b[2] > a[2]
       THEN (p[1] - a[1]) * (b[2] - a[2]) < (p[2] - a[2]) * (b[1] - a[1])
       ELSE (p[1] - a[1]) * (b[2] - a[2]) > (p[2] - a[2]) * (b[1] - a[1])

InPolygon(p, pts) ==
    LET n == Len(pts)
        next(k) == pts[(k % n) + 1]
    IN \/ \E k \in 1..n : OnSegment(p, pts[k], next(k))
       \/ Cardinality({k \in 1..n : RayCrosses(p, pts[k], next(k))}) % 2 = 1

\* cv2.fillPoly(img, [pts], 255): the closed polygon, edges included
fillPoly(img, pts) ==
    [img EXCEPT !.on = @ \cup {p \in Window(img, BoxLo(pts), BoxHi(pts), 0) : InPolygon(p, pts)}]

\* p is within half the thickness (2 pixels) of the segment a-b
NearSegment(p, a, b) ==
    LET len2 == Dist2(a, b)
        dot == (p[1] - a[1]) * (b[1] - a[1]) + (p[2] - a[2]) * (b[2] - a[2])
    IN IF len2 = 0 \/ dot <= 0 THEN Dist2(p, a) <= 1
       ELSE IF dot >= len2 THEN Dist2(p, b) <= 1
       ELSE Cross(a, b, p) * Cross(a, b, p) <= len2

\* cv2.polylines(img, [pts], isClosed=False, color=255, thickness=2)
polylines(img, pts) ==
    [img EXCEPT !.on = @ \cup
        {p \in Window(img, BoxLo(pts), BoxHi(pts), 1) :
            \E k \in 1..(Len(pts) - 1) : NearSegment(p, pts[k], pts[k + 1])}]

\* cv2.ellipse(img, center, axes, angle, 0, 360, 255, -1): the filled ellipse.
\* The angle turns the axes; the shape records carry quarter turns only.
ellipse(img, center, axes, angle) ==
    LET a == IF angle % 180 = 0 THEN axes[1] ELSE axes[2]
        b == IF angle % 180 = 0 THEN axes[2] ELSE axes[1]
        inside(p) ==
            LET dx == p[1] - center[1]
                dy == p[2] - center[2]
            IN IF a = 0 \/ b = 0
               THEN (dx * dx <= a * a) /\ (dy * dy <= b * b)
               ELSE dx * dx * b * b + dy * dy * a * a <= a * a * b * b
    IN [img EXCEPT !.on = @ \cup
           {p \in Window(img, <<center[1] - a, center[2] - b>>,
                              <<center[1] + a, center[2] + b>>, 0) : inside(p)}]

(***************************************************************************)
(* Mask Builder: create_grouped_masks_from_annotations                     *)
(***************************************************************************)
MaxShapes == 2

Frames == {0, 12}
ShapeTypes == {"polygon", "polyline", "ellipse", "rectangle"}
PointsDomain ==
    { <<>>, <<1, 1>>, <<1, 1, 2, 1>>, <<1, 1, 2, 1, -90>>, <<1, 1, 2, 1, -90, 3>> }
ImageSizes == {<<1500, 1500>>, <<4, 3>>}

\* Shape records of the JSON file; a record may lack a key.
ShapeDomain ==
    [frame : Frames, points : PointsDomain, type : ShapeTypes]
    \cup { [points |-> <<1, 1, 2, 1, -90, 3>>], [frame |-> 12, type |-> "ellipse"] }

RECURSIVE SeqsUpTo(_, _)
SeqsUpTo(S, n) ==
    IF n = 0 THEN {<<>>}
    ELSE LET shorter == SeqsUpTo(S, n - 1)
         IN shorter \cup {Append(s, x) : s \in {t \in shorter : Len(t) = n - 1}, x \in S}

\* The three fields of a shape as the loop body reads them (lines 31-33)
FrameOf(shape) == Get(shape, "frame", 0)
PointsOf(shape) == Get(shape, "points", <<>>)
TypeOf(shape) == Get(shape, "type", "polygon")

InitMaskSwapped(masks, frame, size) ==
    IF frame \in DOMAIN masks.val THEN masks
    ELSE [keys |-> Append(masks.keys, frame),
          val |-> [f \in DOMAIN masks.val \cup {frame} |->
                      IF f = frame THEN Zeros(size[1], size[2]) ELSE masks.val[f]]]

\* if frame not in grouped_masks: grouped_masks[frame] = np.zeros(...)
InitMask(masks, frame, size) ==
    IF frame \in DOMAIN masks.val THEN masks
    ELSE [keys |-> Append(masks.keys, frame),
          val |-> [f \in DOMAIN masks.val \cup {frame} |->
                      IF f = frame THEN Zeros(size[2], size[1]) ELSE masks.val[f]]]

\* if len(points) % 2 == 0 and len(points) > 0
ValidPoints(points) == Len(points) % 2 = 0 /\ Len(points) > 0

DrawShapeLoose(img, points, shape_type) ==
    IF ValidPoints(points)
    THEN LET points_array == Reshape(points)
         IN CASE shape_type = "polygon" ->
                    IF Len(points_array) >= 2 THEN fillPoly(img, points_array) ELSE img
              [] shape_type = "polyline" ->
                    IF Len(points_array) >= 2 THEN polylines(img, points_array) ELSE img
              [] shape_type = "ellipse" ->
                    IF Len(points) >= 4
                    THEN ellipse(img, <<points[1], points[2]>>, <<points[3], points[4]>>,
                                 IF Len(points) > 4 THEN points[5] ELSE 0)
                    ELSE img
              [] OTHER -> img
    ELSE img

\* The canvas of the frame after the body of the loop has dealt with the shape
\* (lines 40-63)
DrawShape(img, points, shape_type) ==
    IF ValidPoints(points)
    THEN LET points_array == Reshape(points)
         IN CASE shape_type = "polygon" ->
                    IF Len(points_array) >= 3 THEN fillPoly(img, points_array) ELSE img
              [] shape_type = "polyline" ->
                    IF Len(points_array) >= 2 THEN polylines(img, points_array) ELSE img
              [] shape_type = "ellipse" ->
                    IF Len(points) >= 4
                    THEN ellipse(img, <<points[1], points[2]>>, <<points[3], points[4]>>,
                                 IF Len(points) > 4 THEN points[5] ELSE 0)
                    ELSE img
              [] OTHER -> img
    ELSE img

\* What the body of the loop prints for the shape
Diagnostic(points, shape_type) ==
    IF ValidPoints(points)
    THEN CASE shape_type = "polygon" /\ Len(points) \div 2 < 3 ->
                  <<<<"Skipping polygon with insufficient points", points>>>>
           [] shape_type = "polyline" /\ Len(points) \div 2 < 2 ->
                  <<<<"Skipping polyline with insufficient points", points>>>>
           [] shape_type = "ellipse" /\ Len(points) < 4 ->
                  <<<<"Skipping ellipse with insufficient points", points>>>>
           [] OTHER -> <<>>
    ELSE <<<<"Invalid or empty points array", points>>>>

\* f"mask_frame_{frame}_1500x1500.png"
OutputName(frame) == S_mask_frame \o <<"_">> \o IntToStr(frame) \o <<"_">> \o S_1500x1500 \o S_png

\* cv2.imwrite(output_file, mask)
ImWrite(dir, name, img) ==
    [n \in DOMAIN dir \cup {name} |-> IF n = name THEN img ELSE dir[n]]

NoDict == [keys |-> <<>>, val |-> <<>>]

BuilderIdle ==
    /\ data = <<>> /\ image_size = <<0, 0>> /\ grouped_masks = NoDict
    /\ idx = 0 /\ files = <<>>
CompareIdle ==
    /\ cvat_mask = None /\ test_mask = None /\ ret = None
    /\ cvat_file = None /\ test_file = None
BatchIdle ==
    /\ cvat_dir = {} /\ test_dir = {} /\ listing = <<>> /\ pos = 0
    /\ results = <<>> /\ total_iou = <<0, 1>> /\ total_accuracy = <<0, 1>> /\ count = 0

InitBuilder ==
    /\ pc = "shapes"
    /\ stdout = <<>>
    /\ data \in SeqsUpTo(ShapeDomain, MaxShapes)
    /\ image_size \in ImageSizes
    /\ grouped_masks = NoDict
    /\ idx = 1
    /\ files = <<>>
    /\ CompareIdle /\ BatchIdle

\* One pass of the loop over the shapes (lines 30-63)
ProcessShape ==
    /\ pc = "shapes" /\ idx <= Len(data)
    /\ LET shape == data[idx]
           frame == FrameOf(shape)
           points == PointsOf(shape)
           shape_type == TypeOf(shape)
           masks == InitMask(grouped_masks, frame, image_size)
       IN /\ grouped_masks' =
                 [masks EXCEPT !.val[frame] = DrawShape(@, points, shape_type)]
          /\ stdout' = stdout \o Diagnostic(points, shape_type)
    /\ idx' = idx + 1
    /\ UNCHANGED <<pc, data, image_size, files, cvars, evars>>

\* The loop over the shapes is exhausted: on to the loop that saves (line 66)
BeginSave ==
    /\ pc = "shapes" /\ idx > Len(data)
    /\ pc' = "save" /\ idx' = 1
    /\ UNCHANGED <<stdout, data, image_size, grouped_masks, files, cvars, evars>>

\* One pass of the loop that saves (lines 66-68)
SaveMask ==
    /\ pc = "save" /\ idx <= Len(grouped_masks.keys)
    /\ LET frame == grouped_masks.keys[idx]
       IN files' = ImWrite(files, OutputName(frame), grouped_masks.val[frame])
    /\ idx' = idx + 1
    /\ UNCHANGED <<pc, stdout, data, image_size, grouped_masks, cvars, evars>>

BuilderReturn ==
    /\ pc = "save" /\ idx > Len(grouped_masks.keys)
    /\ pc' = "done"
    /\ UNCHANGED <<stdout, bvars, cvars, evars>>

NextBuilder == ProcessShape \/ BeginSave \/ SaveMask \/ BuilderReturn

SpecBuilder == InitBuilder /\ [][NextBuilder]_vars

(***************************************************************************)
(* Mask Builder: properties                                                *)
(***************************************************************************)
\* The shapes the loop has dealt with so far
Processed == IF pc = "shapes" THEN idx - 1 ELSE Len(data)

\* The frame indices that appear in the shapes dealt with so far
SeenFrames == {FrameOf(data[k]) : k \in 1..Processed}

\* A shape record that is skipped: points of odd or zero length, a polygon
\* of fewer than 3 points, a polyline of fewer than 2 points, an ellipse of
\* fewer than 4 values, or a type that is none of the three.
Skipped(shape) ==
    LET points == PointsOf(shape)
        shape_type == TypeOf(shape)
    IN \/ Len(points) % 2 # 0
       \/ Len(points) = 0
       \/ shape_type = "polygon" /\ Len(points) \div 2 < 3
       \/ shape_type = "polyline" /\ Len(points) \div 2 < 2
       \/ shape_type = "ellipse" /\ Len(points) < 4
       \/ shape_type \notin {"polygon", "polyline", "ellipse"}

\* mask_frame_<frame>_<width>x<height>.png
ConfiguredName(frame, size) ==
    S_mask_frame \o <<"_">> \o IntToStr(frame) \o <<"_">> \o
    IntToStr(size[1]) \o <<"x">> \o IntToStr(size[2]) \o S_png

\* C1: every file written for a frame f is named
\* mask_frame_<f>_<width>x<height>.png with the width and height of the
\* configured image_size.
C1_NameCarriesImageSize ==
    /\ \A name \in DOMAIN files :
          \E f \in DOMAIN grouped_masks.val : name = ConfiguredName(f, image_size)
    /\ pc = "done" =>
          \A f \in DOMAIN grouped_masks.val : ConfiguredName(f, image_size) \in DOMAIN files

\* C2: an ellipse record of at least 4 values is drawn (center, axes, the 5th
\* value as the angle, 0 when there are exactly 4) and prints no diagnostic.
C2_EllipseDrawnFromFourValues ==
    [][(/\ pc = "shapes" /\ idx <= Len(data)
        /\ TypeOf(data[idx]) = "ellipse"
        /\ Len(PointsOf(data[idx])) >= 4)
       => LET points == PointsOf(data[idx])
              frame == FrameOf(data[idx])
              before == IF frame \in DOMAIN grouped_masks.val
                        THEN grouped_masks.val[frame]
                        ELSE Zeros(image_size[2], image_size[1])
          IN /\ grouped_masks'.val[frame] =
                    ellipse(before, <<points[1], points[2]>>, <<points[3], points[4]>>,
                            IF Len(points) >= 5 THEN points[5] ELSE 0)
             /\ stdout' = stdout]_vars

\* C3: the canvases are those of the frame indices that appear in the shape
\* records, one each; every one is written to a file of its own; a frame all
\* of whose records were skipped has an all-zero canvas of the configured size.
C3_OneCanvasPerFrame ==
    /\ DOMAIN grouped_masks.val = SeenFrames
    /\ Len(grouped_masks.keys) = Cardinality(SeenFrames)
    /\ {grouped_masks.keys[k] : k \in 1..Len(grouped_masks.keys)} = SeenFrames
    /\ \A f \in SeenFrames :
          /\ grouped_masks.val[f].rows = image_size[2]
          /\ grouped_masks.val[f].cols = image_size[1]
          /\ (\A k \in 1..Processed : FrameOf(data[k]) = f => Skipped(data[k]))
                => AllZero(grouped_masks.val[f])
    /\ pc = "done" =>
          /\ Cardinality(DOMAIN files) = Cardinality(SeenFrames)
          /\ \A f \in SeenFrames :
                /\ OutputName(f) \in DOMAIN files
                /\ files[OutputName(f)] = grouped_masks.val[f]

C3_Witness ==
    /\ pc = "done"
    /\ Cardinality(SeenFrames) = 2
    /\ \E f \in SeenFrames :
          /\ \A k \in 1..Len(data) : FrameOf(data[k]) = f => Skipped(data[k])
          /\ files[OutputName(f)] = Zeros(image_size[2], image_size[1])
          /\ image_size[1] # image_size[2]
    /\ \E f \in SeenFrames : grouped_masks.val[f].on # {}

\* C10: a skipped shape record changes no pixel of any canvas (it may only
\* create the all-zero canvas of its own frame) and the loop goes on to the
\* next record.
C10_SkippedShapeDrawsNothing ==
    [][(pc = "shapes" /\ idx <= Len(data) /\ Skipped(data[idx]))
       => LET frame == FrameOf(data[idx])
          IN /\ \A f \in DOMAIN grouped_masks.val :
                    /\ f \in DOMAIN grouped_masks'.val
                    /\ grouped_masks'.val[f] = grouped_masks.val[f]
             /\ DOMAIN grouped_masks'.val = DOMAIN grouped_masks.val \cup {frame}
             /\ grouped_masks'.val[frame].on # {} => frame \in DOMAIN grouped_masks.val
             /\ pc' = "shapes" /\ idx' = idx + 1 /\ data' = data]_vars

C10_Witness ==
    /\ pc = "done"
    /\ \E k \in 1..Len(data), l \in 1..Len(data) :
          /\ k < l
          /\ Skipped(data[k]) /\ ~Skipped(data[l])
          /\ FrameOf(data[k]) = FrameOf(data[l])
          /\ grouped_masks.val[FrameOf(data[l])].on # {}

(***************************************************************************)
(* Mask Comparator: grids and metrics                                      *)
(*                                                                         *)
(* A grayscale grid is [rows, cols, px], px the intensities in row-major   *)
(* order.                                                                  *)
(***************************************************************************)
Intensities == {0, 127, 128, 255}
Shapes == {<<1, 2>>, <<2, 1>>, <<1, 3>>}

Grids(values) ==
    UNION {[rows : {sh[1]}, cols : {sh[2]}, px : [1..(sh[1] * sh[2]) -> values]] : sh \in Shapes}

\* What a file can hold: a grid cv2.imread loads, or nothing it can load
Images == Grids(Intensities) \cup {None}

ShapeOf(img) == <<img.rows, img.cols>>

\* cv2.resize(img, (cols, rows)): every pixel of the result is interpolated
\* from pixels of img, so it lies between the least and the greatest of them:
\* any of the intensities in that range.
resize(img, cols, rows) ==
    LET lo == SeqMin(img.px)
        hi == SeqMax(img.px)
    IN {[rows |-> rows, cols |-> cols, px |-> px] :
           px \in [1..(rows * cols) -> {v \in Intensities : lo <= v /\ v <= hi}]}

ThresholdFrom(v, thresh) == IF v >= thresh THEN 255 ELSE 0

\* cv2.threshold(img, thresh, 255, cv2.THRESH_BINARY) on one pixel
ThresholdPixel(v, thresh) == IF v > thresh THEN 255 ELSE 0

threshold(img) == [img EXCEPT !.px = [n \in DOMAIN img.px |-> ThresholdPixel(img.px[n], 127)]]

\* np.logical_and(a, b).sum()
Intersection(a, b) == Cardinality({n \in DOMAIN a.px : a.px[n] # 0 /\ b.px[n] # 0})

\* np.logical_or(a, b).sum()
Union(a, b) == Cardinality({n \in DOMAIN a.px : a.px[n] # 0 \/ b.px[n] # 0})

\* np.sum(a == b)
CorrectPixels(a, b) == Cardinality({n \in DOMAIN a.px : a.px[n] = b.px[n]})

RowsOnly(img) == img.rows

\* cvat_mask.shape[0] * cvat_mask.shape[1]
TotalPixels(img) == img.rows * img.cols

RECURSIVE GCD(_, _)
GCD(a, b) == IF b = 0 THEN a ELSE GCD(b, a % b)

\* the number n / d, d > 0
Frac(n, d) == LET g == GCD(n, d) IN <<n \div g, d \div g>>
FracAdd(a, b) == Frac(a[1] * b[2] + b[1] * a[2], a[2] * b[2])
FracDiv(a, k) == Frac(a[1], a[2] * k)
Zero == <<0, 1>>
One == <<1, 1>>

IoUOrOne(intersection, union) == IF union > 0 THEN Frac(intersection, union) ELSE One

\* iou = intersection / union if union > 0 else 0.0
IoU(intersection, union) == IF union > 0 THEN Frac(intersection, union) ELSE Zero

\* lines 35-46, on the two thresholded grids
Metrics(a, b) ==
    [IoU |-> IoU(Intersection(a, b), Union(a, b)),
     Accuracy |-> Frac(CorrectPixels(a, b), TotalPixels(a))]

ZeroMetrics == [IoU |-> Zero, Accuracy |-> Zero]

(***************************************************************************)
(* Mask Comparator: compute_mask_accuracy                                  *)
(***************************************************************************)
InitCompare ==
    /\ pc = "imread"
    /\ stdout = <<>>
    /\ cvat_file \in Images /\ test_file \in Images
    /\ cvat_mask = None /\ test_mask = None /\ ret = None
    /\ BuilderIdle /\ BatchIdle

\* lines 18-19
Load ==
    /\ pc = "imread"
    /\ cvat_mask' = cvat_file /\ test_mask' = test_file
    /\ pc' = "loaded"
    /\ UNCHANGED <<stdout, ret, cvat_file, test_file, bvars, evars>>

ReturnZeroRaises ==
    /\ pc = "loaded"
    /\ cvat_mask = None \/ test_mask = None
    /\ stdout' = Append(stdout, <<"Error: Could not load one of the masks">>)
    /\ pc' = "raised"
    /\ UNCHANGED <<cvat_mask, test_mask, ret, cvat_file, test_file, bvars, evars>>

\* lines 22-24
ReturnZero ==
    /\ pc = "loaded"
    /\ cvat_mask = None \/ test_mask = None
    /\ stdout' = Append(stdout, <<"Error: Could not load one of the masks">>)
    /\ ret' = ZeroMetrics
    /\ pc' = "return"
    /\ UNCHANGED <<cvat_mask, test_mask, cvat_file, test_file, bvars, evars>>

\* lines 27-28, the shapes differ
Resize ==
    /\ pc = "loaded"
    /\ cvat_mask # None /\ test_mask # None
    /\ ShapeOf(cvat_mask) # ShapeOf(test_mask)
    /\ test_mask' \in resize(test_mask, cvat_mask.cols, cvat_mask.rows)
    /\ pc' = "sized"
    /\ UNCHANGED <<stdout, cvat_mask, ret, cvat_file, test_file, bvars, evars>>

\* line 27, the shapes are the same
KeepSize ==
    /\ pc = "loaded"
    /\ cvat_mask # None /\ test_mask # None
    /\ ShapeOf(cvat_mask) = ShapeOf(test_mask)
    /\ pc' = "sized"
    /\ UNCHANGED <<stdout, cvat_mask, test_mask, ret, cvat_file, test_file, bvars, evars>>

\* lines 31-32
Binarize ==
    /\ pc = "sized"
    /\ cvat_mask' = threshold(cvat_mask)
    /\ test_mask' = threshold(test_mask)
    /\ pc' = "binary"
    /\ UNCHANGED <<stdout, ret, cvat_file, test_file, bvars, evars>>

\* lines 35-46
ComputeMetrics ==
    /\ pc = "binary"
    /\ ret' = Metrics(cvat_mask, test_mask)
    /\ pc' = "return"
    /\ UNCHANGED <<stdout, cvat_mask, test_mask, cvat_file, test_file, bvars, evars>>

NextCompare == Load \/ ReturnZero \/ Resize \/ KeepSize \/ Binarize \/ ComputeMetrics

SpecCompare == InitCompare /\ [][NextCompare]_vars

(***************************************************************************)
(* Mask Comparator: properties of compute_mask_accuracy                    *)
(***************************************************************************)
BothLoad == cvat_file # None /\ test_file # None
SameSized == BothLoad /\ ShapeOf(cvat_file) = ShapeOf(test_file)

\* The pixels of a grid above the threshold 127
Foreground(img) == {n \in DOMAIN img.px : img.px[n] > 127}

InUnitInterval(q) == q[2] > 0 /\ 0 <= q[1] /\ q[1] <= q[2]

\* C4: for same-sized masks that both load, the intersection count never
\* exceeds the union count, the agreeing pixels never exceed the total, and the
\* IoU and Accuracy returned are in [0, 1].
C4_MetricsInUnitInterval ==
    SameSized =>
        /\ pc = "binary" =>
              /\ Intersection(cvat_mask, test_mask) <= Union(cvat_mask, test_mask)
              /\ CorrectPixels(cvat_mask, test_mask) <= TotalPixels(cvat_mask)
        /\ pc = "return" => InUnitInterval(ret.IoU) /\ InUnitInterval(ret.Accuracy)

C4_Witness ==
    /\ pc = "return" /\ SameSized
    /\ ret.IoU = <<1, 2>> /\ ret.Accuracy = <<2, 3>>

\* C5: a candidate identical to the reference gets Accuracy 1.0, and IoU 1.0
\* when some pixel is above 127, IoU 0.0 when none is.
C5_IdenticalMasks ==
    (pc = "return" /\ BothLoad /\ cvat_file = test_file) =>
        /\ ret.Accuracy = One
        /\ ret.IoU = IF Foreground(cvat_file) # {} THEN One ELSE Zero

C5_Witness ==
    /\ pc = "return" /\ BothLoad /\ cvat_file = test_file
    /\ Foreground(cvat_file) = {}
    /\ \E n \in DOMAIN cvat_file.px : cvat_file.px[n] = 127
    /\ ret = [IoU |-> Zero, Accuracy |-> One]

\* C6: same-sized masks whose foregrounds (pixels above 127) are non-empty and
\* disjoint get IoU 0.0 and Accuracy (total - foreground_ref - foreground_cand) / total.
C6_DisjointForegrounds ==
    (/\ pc = "return" /\ SameSized
     /\ Foreground(cvat_file) # {} /\ Foreground(test_file) # {}
     /\ Foreground(cvat_file) \cap Foreground(test_file) = {})
    => /\ ret.IoU = Zero
       /\ ret.Accuracy =
              Frac(TotalPixels(cvat_file) - Cardinality(Foreground(cvat_file))
                       - Cardinality(Foreground(test_file)),
                   TotalPixels(cvat_file))

C6_Witness ==
    /\ pc = "return" /\ SameSized
    /\ Foreground(cvat_file) # {} /\ Foreground(test_file) # {}
    /\ Foreground(cvat_file) \cap Foreground(test_file) = {}
    /\ \E n \in DOMAIN cvat_file.px : cvat_file.px[n] = 127 /\ test_file.px[n] = 0
    /\ ret = [IoU |-> Zero, Accuracy |-> <<1, 3>>]

(***************************************************************************)
(* Mask Comparator: evaluate_multiple_masks                                *)
(***************************************************************************)
MaxFiles == 3

S_mejorada ==
    <<"m", "e", "j", "o", "r", "a", "d", "a", "_", "r", "e", "c", "o", "r", "t", "a", "d", "a",
      "_", "0", "3", "0", "1", "-">>
S_mascara == <<"_", "m", "a", "s", "c", "a", "r", "a">> \o S_png
S_Overall == <<"O", "v", "e", "r", "a", "l", "l">>

\* f"mejorada_recortada_0301-{n}_mascara.png"
CandidateName(n) == S_mejorada \o IntToStr(n) \o S_mascara

\* Names a reference directory may hold
RefNames ==
    { S_mask_frame \o <<"_", "0">> \o S_png,
      S_mask_frame \o <<"_", "1">> \o S_png,
      OutputName(12),
      S_mask_frame \o S_png,
      S_mask_frame \o <<"_", "a", "b", "c">> \o S_png,
      S_mask_frame \o <<"_", "1", ".", "t", "x", "t">> }

\* Names a candidate directory may hold
CandNames == {CandidateName(1), CandidateName(2), CandidateName(13)}

\* What the two files of a compared pair may hold
SampleImages ==
    { None,
      [rows |-> 1, cols |-> 2, px |-> <<255, 255>>],
      [rows |-> 1, cols |-> 3, px |-> <<0, 128, 255>>] }

\* filename.startswith("mask_frame") and filename.endswith(".png")
Accepted(filename) == StartsWith(filename, S_mask_frame) /\ EndsWith(filename, S_png)

\* int(s) returns a value: an optional sign, then decimal digits
IsIntLiteral(s) ==
    LET body == IF Len(s) > 0 /\ s[1] \in {"+", "-"} THEN Tail(s) ELSE s
    IN Len(body) > 0 /\ \A n \in 1..Len(body) : IsDigit(body[n])

RECURSIVE ParseNat(_)
ParseNat(s) ==
    IF s = <<>> THEN 0 ELSE 10 * ParseNat(SubSeq(s, 1, Len(s) - 1)) + DigitValue(s[Len(s)])

\* int(s)
ParseInt(s) ==
    IF s[1] = "-" THEN 0 - ParseNat(Tail(s))
    ELSE IF s[1] = "+" THEN ParseNat(Tail(s))
    ELSE ParseNat(s)

\* filename.split("_")[2].split(".")[0] and int(frame_number) raise nothing
Derivable(filename) ==
    /\ Len(Split(filename, "_")) >= 3
    /\ IsIntLiteral(Split(Split(filename, "_")[3], ".")[1])

\* lines 67-68
TestMaskFilename(filename) ==
    LET frame_number == Split(Split(filename, "_")[3], ".")[1]
    IN CandidateName(ParseInt(frame_number) + 1)

\* results[key] = value
Put(dict, key, value) ==
    [k \in DOMAIN dict \cup {key} |-> IF k = key THEN value ELSE dict[k]]

\* total / count if count > 0 else 0.0
Mean(total, n) == IF n > 0 THEN FracDiv(total, n) ELSE Zero

InitBatch ==
    /\ pc = "start"
    /\ stdout = <<>>
    /\ cvat_dir \in {d \in SUBSET RefNames : Cardinality(d) <= MaxFiles}
    /\ test_dir \in SUBSET CandNames
    /\ listing = <<>> /\ pos = 0
    /\ results = <<>>
    /\ total_iou = Zero /\ total_accuracy = Zero /\ count = 0
    /\ BuilderIdle /\ CompareIdle

\* lines 60-65: the locals, and the sorted listing the loop walks
ListDir ==
    /\ pc = "start"
    /\ listing' = Sorted(cvat_dir)
    /\ pos' = 1
    /\ pc' = "files"
    /\ UNCHANGED <<stdout, cvat_dir, test_dir, results, total_iou, total_accuracy, count,
                   bvars, cvars>>

\* line 66: the name is not one of a mask file
SkipFile ==
    /\ pc = "files" /\ pos <= Len(listing)
    /\ ~Accepted(listing[pos])
    /\ pos' = pos + 1
    /\ UNCHANGED <<pc, stdout, cvat_dir, test_dir, listing, results, total_iou,
                   total_accuracy, count, bvars, cvars>>

\* lines 67-68: the index or int() raises, and the exception leaves the function
DeriveAbort ==
    /\ pc = "files" /\ pos <= Len(listing)
    /\ Accepted(listing[pos])
    /\ ~Derivable(listing[pos])
    /\ pc' = "raised"
    /\ UNCHANGED <<stdout, evars, bvars, cvars>>

MissingCandidateCounted ==
    /\ pc = "files" /\ pos <= Len(listing)
    /\ Accepted(listing[pos])
    /\ Derivable(listing[pos])
    /\ TestMaskFilename(listing[pos]) \notin test_dir
    /\ stdout' = Append(stdout, <<"Warning: Missing test mask for", listing[pos],
                                  TestMaskFilename(listing[pos])>>)
    /\ pos' = pos + 1
    /\ count' = count + 1
    /\ UNCHANGED <<pc, cvat_dir, test_dir, listing, results, total_iou,
                   total_accuracy, bvars, cvars>>

\* lines 67-72, 78-79: no candidate file of the derived name
MissingCandidate ==
    /\ pc = "files" /\ pos <= Len(listing)
    /\ Accepted(listing[pos])
    /\ Derivable(listing[pos])
    /\ TestMaskFilename(listing[pos]) \notin test_dir
    /\ stdout' = Append(stdout, <<"Warning: Missing test mask for", listing[pos],
                                  TestMaskFilename(listing[pos])>>)
    /\ pos' = pos + 1
    /\ UNCHANGED <<pc, cvat_dir, test_dir, listing, results, total_iou,
                   total_accuracy, count, bvars, cvars>>

\* lines 67-73: the candidate exists; compute_mask_accuracy is entered on
\* the two files, whatever they hold
CallCompute ==
    /\ pc = "files" /\ pos <= Len(listing)
    /\ Accepted(listing[pos])
    /\ Derivable(listing[pos])
    /\ TestMaskFilename(listing[pos]) \in test_dir
    /\ cvat_file' \in SampleImages /\ test_file' \in SampleImages
    /\ pc' = "imread"
    /\ UNCHANGED <<stdout, cvat_mask, test_mask, ret, evars, bvars>>

\* lines 73-77: compute_mask_accuracy has returned
Record ==
    /\ pc = "return"
    /\ results' = Put(results, listing[pos], ret)
    /\ total_iou' = FracAdd(total_iou, ret.IoU)
    /\ total_accuracy' = FracAdd(total_accuracy, ret.Accuracy)
    /\ count' = count + 1
    /\ pos' = pos + 1
    /\ pc' = "files"
    /\ cvat_mask' = None /\ test_mask' = None /\ ret' = None
    /\ cvat_file' = None /\ test_file' = None
    /\ UNCHANGED <<stdout, cvat_dir, test_dir, listing, bvars>>

\* lines 82-86
Finish ==
    /\ pc = "files" /\ pos > Len(listing)
    /\ results' = Put(results, S_Overall,
                      [IoU |-> Mean(total_iou, count), Accuracy |-> Mean(total_accuracy, count)])
    /\ pc' = "done"
    /\ UNCHANGED <<stdout, cvat_dir, test_dir, listing, pos, total_iou, total_accuracy,
                   count, bvars, cvars>>

NextBatch ==
    \/ ListDir \/ SkipFile \/ DeriveAbort \/ MissingCandidate \/ CallCompute
    \/ Load \/ ReturnZero \/ Resize \/ KeepSize \/ Binarize \/ ComputeMetrics
    \/ Record \/ Finish

SpecBatch == InitBatch /\ [][NextBatch]_vars

(***************************************************************************)
(* Mask Comparator: properties of evaluate_multiple_masks                  *)
(***************************************************************************)
\* The entries of results other than "Overall"
Entries == DOMAIN results \ {S_Overall}

\* The reference files whose derived candidate file exists
Matched ==
    {f \in cvat_dir : Accepted(f) /\ Derivable(f) /\ TestMaskFilename(f) \in test_dir}

\* The sum of a metric over the entries named
RECURSIVE SumOver(_, _)
SumOver(names, metric) ==
    IF names = {} THEN Zero
    ELSE LET f == CHOOSE g \in names : TRUE
         IN FracAdd(results[f][metric], SumOver(names \ {f}, metric))

MeanOver(names, metric) ==
    IF names = {} THEN Zero
    ELSE LET total == SumOver(names, metric)
         IN Frac(total[1], total[2] * Cardinality(names))

\* C7: when evaluate_multiple_masks returns, results holds an entry for each
\* reference file whose candidate exists and for no other file, and "Overall"
\* is the mean of exactly those entries (0.0 with none); all along, the sums
\* and the count are those of the entries recorded, whatever candidates are missing.
C7_OverallIsMeanOfMatched ==
    /\ pc \in {"files", "done"} =>
          /\ count = Cardinality(Entries)
          /\ total_iou = SumOver(Entries, "IoU")
          /\ total_accuracy = SumOver(Entries, "Accuracy")
    /\ pc = "done" =>
          /\ DOMAIN results = Matched \cup {S_Overall}
          /\ results[S_Overall].IoU = MeanOver(Entries, "IoU")
          /\ results[S_Overall].Accuracy = MeanOver(Entries, "Accuracy")

C7_Witness ==
    /\ pc = "done"
    /\ Cardinality(Entries) = 2
    /\ \E f \in cvat_dir : Accepted(f) /\ f \notin DOMAIN results
    /\ \E f \in Entries, g \in Entries :
          results[f].IoU = One /\ results[g].IoU = <<1, 2>>
    /\ results[S_Overall].IoU = <<3, 4>>

\* C8: when one of the two images fails to load, compute_mask_accuracy goes
\* straight to returning {IoU: 0.0, Accuracy: 0.0}, the grids untouched, and
\* evaluate_multiple_masks records it and goes on to the next file.
C8_LoadFailureIsZeroMetrics ==
    [][/\ (pc = "loaded" /\ (cvat_mask = None \/ test_mask = None))
          => /\ pc' = "return" /\ ret' = ZeroMetrics
             /\ cvat_mask' = cvat_mask /\ test_mask' = test_mask
       /\ (pc = "return" /\ (cvat_file = None \/ test_file = None))
          => /\ pc' = "files" /\ pos' = pos + 1 /\ listing' = listing
             /\ results' = Put(results, listing[pos], ZeroMetrics)]_vars

C8_Witness ==
    /\ pc = "done"
    /\ \E n \in 1..Len(stdout) : stdout[n] = <<"Error: Could not load one of the masks">>
    /\ \E f \in Entries, g \in Entries :
          /\ StrLess(f, g)
          /\ results[f] = ZeroMetrics
          /\ results[g] = [IoU |-> One, Accuracy |-> One]

\* C9: evaluate_multiple_masks runs to completion for every directory
\* listing: no file name the prefix/suffix filter accepts aborts the batch.
C9_NoAcceptedNameAborts == pc # "raised"

====
